---- MODULE Spec2Model ----
(***************************************************************************)
(* A model of promptflow.evals.evaluate._evaluate: the evaluate() pipeline  *)
(* that loads a dataset, optionally applies a target, runs evaluators and   *)
(* merges everything into one report.                                       *)
(*                                                                          *)
(* Strings are sequences of one-character strings, so that str.startswith,  *)
(* slicing, the "in" substring test, str.replace and the two regular        *)
(* expressions act on characters as they do in Python.  A data frame is a   *)
(* record [index, cols]: the row labels and the columns in order, each      *)
(* column a record [name, vals] with one value per row position; column     *)
(* names may repeat, as they may in pandas.                                 *)
(***************************************************************************)
EXTENDS Integers, Sequences, FiniteSets, TLC

(* ------------------------------ bounds --------------------------------- *)

\* Number of lines of the input file.
NRows == 2
\* Largest number of evaluators in one invocation.
MaxEvals == 2

(* ------------------------------ strings -------------------------------- *)

\* s.startswith(p)
StartsWith(s, p) == Len(s) >= Len(p) /\ SubSeq(s, 1, Len(p)) = p

\* s[n:]
Slice(s, n) == SubSeq(s, n + 1, Len(s))

\* p in s (substring test)
Contains(s, p) ==
    \E i \in 1..(Len(s) - Len(p) + 1) : SubSeq(s, i, i + Len(p) - 1) = p

\* s.replace(old, new): every non-overlapping occurrence, left to right.
RECURSIVE Replace(_, _, _)
Replace(s, old, new) ==
    IF Len(s) < Len(old) THEN s
    ELSE IF StartsWith(s, old)
         THEN new \o Replace(Slice(s, Len(old)), old, new)
         ELSE <<Head(s)>> \o Replace(Tail(s), old, new)

\* The elements of a sequence.
Range(s) == {s[i] : i \in DOMAIN s}

\* The permutations of 1..n, as sequences.
Perms(n) == {p \in [1..n -> 1..n] : \A i, j \in 1..n : p[i] = p[j] => i = j}

\* The orderings of a finite set, as sequences (a Python set's iteration order).
Orderings(S) ==
    {o \in [1..Cardinality(S) -> S] :
        \A i, j \in 1..Cardinality(S) : o[i] = o[j] => i = j}

\* The subsequence of s whose elements satisfy Keep.
RECURSIVE SelectIdx(_, _, _)
SelectIdx(s, keep, i) ==
    IF i > Len(s) THEN <<>>
    ELSE (IF i \in keep THEN <<s[i]>> ELSE <<>>) \o SelectIdx(s, keep, i + 1)

(* --------------------------- string literals --------------------------- *)

S_outputs == <<"o", "u", "t", "p", "u", "t", "s", ".">>
S_inputs_dot == <<"i", "n", "p", "u", "t", "s", ".">>
S_inputs == <<"i", "n", "p", "u", "t", "s">>
S_data == <<"d", "a", "t", "a", ".">>
S_run_outputs == <<"r", "u", "n", ".", "o", "u", "t", "p", "u", "t", "s", ".">>
S_target == <<"t", "a", "r", "g", "e", "t", ".">>
S_open == <<"$", "{">>
S_close == <<"}">>
S_default == <<"d", "e", "f", "a", "u", "l", "t">>
S_kwargs == <<"k", "w", "a", "r", "g", "s">>
S_args == <<"a", "r", "g", "s">>
S_self == <<"s", "e", "l", "f">>
\* promptflow._sdk._constants.LINE_NUMBER
LINE_NUMBER == <<"l", "i", "n", "e", "_", "n", "u", "m", "b", "e", "r">>

(* --------------------------- values and frames ------------------------- *)

\* A cell: who produced it (by), for which field (f), for which line of the
\* input file (r), and its payload: a number (kind "num", n) or text.
Cell(by, f, r, kind, n) == [by |-> by, f |-> f, r |-> r, kind |-> kind, n |-> n]

\* The missing value pandas fills in (NaN).
NaN == Cell(<<>>, <<>>, -1, "nan", 0)

\* pandas.RangeIndex(n): the labels 0..n-1.
RangeIndex(n) == [i \in 1..n |-> i - 1]

\* A frame held by a variable that may also be None.
NoneDF == [none |-> TRUE, index |-> <<>>, cols |-> <<>>]
Frame(index, cols) == [none |-> FALSE, index |-> index, cols |-> cols]

\* df.columns, as a sequence and as a set of labels.
ColNames(df) == [i \in DOMAIN df.cols |-> df.cols[i].name]
Columns(df) == Range(ColNames(df))

\* A mutation of HasDuplicateColumns: verify_integrity is left out.
integrity_not_verified(df) == FALSE

\* verify_integrity=True: whether the concatenated columns repeat a label.
HasDuplicateColumns(df) ==
    \E i, j \in DOMAIN df.cols : i # j /\ df.cols[i].name = df.cols[j].name

\* df.drop(columns=labels): every column carrying one of the labels goes.
DropColumns(df, labels) ==
    [df EXCEPT !.cols =
        SelectIdx(df.cols, {i \in DOMAIN df.cols : df.cols[i].name \notin labels}, 1)]

\* df.rename(columns=mapper): mapper is a function on some labels; every label
\* is mapped at once, a label outside the mapper's domain is kept.
RenameColumns(df, mapper) ==
    [df EXCEPT !.cols =
        [i \in DOMAIN df.cols |->
            [df.cols[i] EXCEPT !.name =
                IF df.cols[i].name \in DOMAIN mapper
                THEN mapper[df.cols[i].name] ELSE df.cols[i].name]]]

\* The position of label l in an index.
PosOf(index, l) == CHOOSE p \in DOMAIN index : index[p] = l

\* The union of two indexes: a's labels, then b's labels that a lacks.
UnionIndex(a, b) ==
    a \o SelectIdx(b, {i \in DOMAIN b : b[i] \notin Range(a)}, 1)

\* Column c re-indexed to the labels of index: NaN where df lacks the label.
Reindexed(df, c, index) ==
    [c EXCEPT !.vals =
        [p \in DOMAIN index |->
            IF index[p] \in Range(df.index)
            THEN c.vals[PosOf(df.index, index[p])] ELSE NaN]]

\* A mutation of concat_axis1: the frames are stacked (axis=0 left at its default).
concat_axis0(a, b) ==
    LET names == ColNames(a) \o SelectIdx(ColNames(b),
                     {i \in DOMAIN b.cols : b.cols[i].name \notin Columns(a)}, 1)
        Val(df, nm, p) ==
            IF nm \in Columns(df)
            THEN df.cols[CHOOSE i \in DOMAIN df.cols : df.cols[i].name = nm].vals[p]
            ELSE NaN
    IN  Frame(a.index \o b.index,
              [k \in DOMAIN names |->
                  [name |-> names[k],
                   vals |-> [p \in 1..(Len(a.index) + Len(b.index)) |->
                                IF p <= Len(a.index) THEN Val(a, names[k], p)
                                ELSE Val(b, names[k], p - Len(a.index))]]])

\* pd.concat([a, b], axis=1): the columns of a then those of b, rows aligned
\* on the index labels (outer join).
concat_axis1(a, b) ==
    LET index == IF a.index = b.index THEN a.index ELSE UnionIndex(a.index, b.index)
    IN  Frame(index,
              [i \in DOMAIN a.cols |-> Reindexed(a, a.cols[i], index)]
              \o [i \in DOMAIN b.cols |-> Reindexed(b, b.cols[i], index)])

\* df.to_dict("records"): one record per row position, its keys the column
\* labels in column order.
to_dict_records(df) ==
    [p \in DOMAIN df.index |->
        [i \in DOMAIN df.cols |-> [key |-> df.cols[i].name, value |-> df.cols[i].vals[p]]]]

(* ------------------------------- errors -------------------------------- *)

\* An exception: its type and message, the callable and the parameters a
\* missing-inputs message names, and (at) the stage of evaluate that raised it.
NoErr == [type |-> "none", msg |-> "", label |-> <<>>, missing |-> <<>>, at |-> ""]
Err(type, msg) == [type |-> type, msg |-> msg, label |-> <<>>, missing |-> <<>>, at |-> ""]

(* ------------------- _validate_input_data_for_evaluator ---------------- *)

\* A callable is a record with params, a sequence of [name, has_default]: what
\* inspect.signature shows of it.
required_inputs(callable) ==
    LET ps == callable.params
        keep == {i \in DOMAIN ps :
                    ~ps[i].has_default /\ ps[i].name \notin {S_kwargs, S_args, S_self}}
    IN  [i \in DOMAIN SelectIdx(ps, keep, 1) |-> SelectIdx(ps, keep, 1)[i].name]

\* A mutation of missing_inputs: nothing is ever reported missing.
missing_inputs_unchecked(callable, df_data) == <<>>

missing_inputs(callable, df_data) ==
    LET req == required_inputs(callable)
    IN  SelectIdx(req, {i \in DOMAIN req : req[i] \notin Columns(df_data)}, 1)

validate_input_data_for_evaluator(evaluator, evaluator_name, df_data, is_target_fn) ==
    LET missing == missing_inputs(evaluator, df_data)
    IN  IF missing # <<>>
        THEN IF ~is_target_fn
             THEN [type |-> "ValueError", msg |-> "Missing required inputs for evaluator",
                   label |-> evaluator_name, missing |-> missing, at |-> ""]
             ELSE [type |-> "ValueError", msg |-> "Missing required inputs for target",
                   label |-> <<>>, missing |-> missing, at |-> ""]
        ELSE NoErr

(* ------------------------ _validate_and_load_data ---------------------- *)

\* data is None or the path of a well-formed jsonl file; target is None or a
\* function; evaluators is None, a dict or something else; the other
\* arguments are left at None.
validate_and_load_data(target, data, evaluators) ==
    IF data.kind = "none"
    THEN Err("ValueError", "data must be provided for evaluation.")
    ELSE IF evaluators.kind = "notdict"
    THEN Err("ValueError", "evaluators must be a dictionary.")
    ELSE NoErr

\* pd.read_json(data, lines=True): one row per line, labelled 0..n-1, one
\* column per key in the file's order.
initial_data_df(data) ==
    Frame(RangeIndex(NRows),
          [i \in DOMAIN data.columns |->
              [name |-> data.columns[i],
               vals |-> [p \in 1..NRows |->
                            Cell(S_data, data.columns[i], p - 1, "str", 0)]]])

(* -------------------------- _apply_column_mapping ---------------------- *)

\* re.search(r"^\${([^{}]+)}$", map_value): "$" also matches before a final
\* newline.  MatchEnd is the position of the closing brace, 0 for no match.
MatchEnd(v) ==
    LET e == IF Len(v) >= 1 /\ v[Len(v)] = "\n" THEN Len(v) - 1 ELSE Len(v)
    IN  IF /\ e >= 4
           /\ v[1] = "$" /\ v[2] = "{" /\ v[e] = "}"
           /\ \A i \in 3..(e - 1) : v[i] \notin {"{", "}"}
        THEN e ELSE 0

\* match.group(1)
MatchGroup(v) == SubSeq(v, 3, MatchEnd(v) - 1)

\* map_from_key of a ${run.outputs.F} entry.
run_outputs_source(pattern, source_df) ==
    LET map_from_key == Slice(pattern, Len(S_run_outputs))
        col_outputs == S_outputs \o map_from_key
    IN  IF col_outputs \in Columns(source_df) THEN col_outputs ELSE map_from_key

\* The loop over mapping_config.items(): column_mapping (a function from source
\* label to destination) and columns_to_drop after the entries from i on.
RECURSIVE mapping_loop(_, _, _, _, _)
mapping_loop(items, i, source_df, column_mapping, columns_to_drop) ==
    IF i > Len(items)
    THEN [column_mapping |-> column_mapping, columns_to_drop |-> columns_to_drop]
    ELSE LET map_to_key == items[i].k
             map_value == items[i].v
             pattern == MatchGroup(map_value)
         IN  IF MatchEnd(map_value) = 0
             THEN mapping_loop(items, i + 1, source_df, column_mapping, columns_to_drop)
             ELSE IF StartsWith(pattern, S_data)
             THEN mapping_loop(items, i + 1, source_df,
                      (Slice(pattern, Len(S_data)) :> map_to_key) @@ column_mapping,
                      columns_to_drop)
             ELSE IF StartsWith(pattern, S_run_outputs)
             THEN mapping_loop(items, i + 1, source_df,
                      (run_outputs_source(pattern, source_df) :> map_to_key)
                          @@ column_mapping,
                      IF map_to_key \in Columns(source_df)
                      THEN columns_to_drop \cup {map_to_key} ELSE columns_to_drop)
             ELSE mapping_loop(items, i + 1, source_df, column_mapping, columns_to_drop)

\* A mutation of apply_column_mapping: the rename is not in place and its
\* result is thrown away, so only the drop takes effect.
apply_column_mapping_not_renamed(source_df, mapping_config) ==
    IF mapping_config.kind = "dict" /\ mapping_config.items # <<>>
    THEN LET r == mapping_loop(mapping_config.items, 1, source_df, <<>>, {})
         IN  DropColumns(source_df, r.columns_to_drop \ DOMAIN r.column_mapping)
    ELSE source_df

\* mapping_config is [kind |-> "none"] or [kind |-> "dict", items |-> the
\* entries [k, v] in insertion order].
apply_column_mapping(source_df, mapping_config) ==
    IF mapping_config.kind = "dict" /\ mapping_config.items # <<>>
    THEN LET r == mapping_loop(mapping_config.items, 1, source_df, <<>>, {})
             columns_to_drop == r.columns_to_drop \ DOMAIN r.column_mapping
         IN  RenameColumns(DropColumns(source_df, columns_to_drop), r.column_mapping)
    ELSE source_df

(* ------------------------- _process_evaluator_config ------------------- *)

\* re.compile(r"\${(?!target\.|data\.).+?}").search(v): somewhere a "${" not
\* followed by "target." or "data.", then at least one character and a "}",
\* with no newline in between ("." does not match a newline).
unexpected_references(v) ==
    \E i \in 1..(Len(v) - 1) :
        /\ v[i] = "$" /\ v[i + 1] = "{"
        /\ ~StartsWith(Slice(v, i + 1), S_target)
        /\ ~StartsWith(Slice(v, i + 1), S_data)
        /\ \E j \in (i + 3)..Len(v) :
              v[j] = "}" /\ \A k \in (i + 2)..(j - 1) : v[k] # "\n"

\* map_value.replace("${target.", "${run.outputs.")
rewrite_value(v) == Replace(v, S_open \o S_target, S_open \o S_run_outputs)

\* evaluator_config is a sequence of [name, mapping] in insertion order, mapping
\* being [kind |-> "dict", items] or [kind |-> "notdict"].  The result is
\* [err, config]: the error raised, or the processed configuration.
process_evaluator_config(evaluator_config) ==
    LET dicts == SelectIdx(evaluator_config,
                     {i \in DOMAIN evaluator_config :
                         evaluator_config[i].mapping.kind = "dict"}, 1)
        bad == \E i \in DOMAIN dicts : \E j \in DOMAIN dicts[i].mapping.items :
                   unexpected_references(dicts[i].mapping.items[j].v)
    IN  IF bad
        THEN [err |-> Err("ValueError", "Unexpected references detected in 'evaluator_config'."),
              config |-> <<>>]
        ELSE [err |-> NoErr,
              config |->
                [i \in DOMAIN dicts |->
                    [name |-> dicts[i].name,
                     mapping |-> [kind |-> "dict",
                                  items |-> [j \in DOMAIN dicts[i].mapping.items |->
                                      [k |-> dicts[i].mapping.items[j].k,
                                       v |-> rewrite_value(dicts[i].mapping.items[j].v)]]]]]]

\* evaluator_config.get(evaluator_name, evaluator_config.get("default", None))
config_get(evaluator_config, evaluator_name) ==
    LET at(n) == {i \in DOMAIN evaluator_config : evaluator_config[i].name = n}
    IN  IF at(evaluator_name) # {}
        THEN evaluator_config[CHOOSE i \in at(evaluator_name) : TRUE].mapping
        ELSE IF at(S_default) # {}
        THEN evaluator_config[CHOOSE i \in at(S_default) : TRUE].mapping
        ELSE [kind |-> "none"]

(* ----------------------------- _validate_columns ----------------------- *)

\* The evaluators from i on, in the dict's order: the first error raised.
RECURSIVE validate_evaluators(_, _, _, _)
validate_evaluators(df, items, i, evaluator_config) ==
    IF i > Len(items) THEN NoErr
    ELSE LET new_df == apply_column_mapping(df, config_get(evaluator_config, items[i].name))
             e == validate_input_data_for_evaluator(items[i], items[i].name, new_df, FALSE)
         IN  IF e # NoErr THEN e
             ELSE validate_evaluators(df, items, i + 1, evaluator_config)

validate_columns(df, evaluators, target, evaluator_config) ==
    IF target.kind # "none"
    THEN validate_input_data_for_evaluator(target, <<>>, df, TRUE)
    ELSE IF evaluators.kind = "none"
    THEN Err("AttributeError", "'NoneType' object has no attribute 'items'")
    ELSE validate_evaluators(df, evaluators.items, 1, evaluator_config)

(* ------------------------------ batch runs ----------------------------- *)

\* pf_client.get_details(run, all_results=True) of a completed run of a
\* callable: one row per line of the input file, in the order perm (row
\* position p holds line perm[p] - 1), labelled 0..n-1, with the columns
\* inputs.<parameter>, inputs.line_number and outputs.<field>.
get_details(callable, by, perm) ==
    LET n == Len(perm)
        ins == [i \in DOMAIN callable.params |->
                   [name |-> S_inputs_dot \o callable.params[i].name,
                    vals |-> [p \in 1..n |->
                                 Cell(S_inputs, callable.params[i].name, perm[p] - 1, "str", 0)]]]
        line == [name |-> S_inputs_dot \o LINE_NUMBER,
                 vals |-> [p \in 1..n |->
                              Cell(S_inputs, LINE_NUMBER, perm[p] - 1, "num", perm[p] - 1)]]
        outs == [i \in DOMAIN callable.fields |->
                    [name |-> S_outputs \o callable.fields[i].name,
                     vals |-> [p \in 1..n |->
                                  Cell(by, callable.fields[i].name, perm[p] - 1,
                                       callable.fields[i].kind, 2 * perm[p] - 1)]]]
    IN  Frame(RangeIndex(n), ins \o <<line>> \o outs)

(* -------------------------- _apply_target_to_data ---------------------- *)

\* set_index("inputs.line_number"), sort_index, reset_index(drop=False): the
\* rows in increasing line number, labelled 0..n-1 again.
sort_by_line_number(df) ==
    LET c == CHOOSE i \in DOMAIN df.cols : df.cols[i].name = S_inputs_dot \o LINE_NUMBER
        key == df.cols[c].vals
        n == Len(df.index)
        o == CHOOSE o \in Perms(n) : \A i, j \in 1..n : i < j => key[o[i]].n <= key[o[j]].n
        rest == SelectIdx(df.cols, DOMAIN df.cols \ {c}, 1)
    IN  Frame(RangeIndex(n),
              [i \in 1..Len(df.cols) |->
                  LET col == IF i = 1 THEN df.cols[c] ELSE rest[i - 1]
                  IN  [col EXCEPT !.vals = [p \in 1..n |-> col.vals[o[p]]]]])

\* A mutation of target_rename_dict: every outputs. prefix is stripped, also
\* of a field the data set already has.
target_rename_dict_all(target_output, initial_data) ==
    [col \in {c \in Columns(target_output) : StartsWith(c, S_outputs)} |->
        Slice(col, Len(S_outputs))]

\* rename_dict after the loop over initial_data.columns: the outputs. prefix
\* is stripped unless the data set has a column of the stripped name.
target_rename_dict(target_output, initial_data) ==
    LET all == {c \in Columns(target_output) : StartsWith(c, S_outputs)}
        generated_columns == {Slice(c, Len(S_outputs)) : c \in all}
        deleted == {S_outputs \o col : col \in Columns(initial_data) \cap generated_columns}
    IN  [col \in all \ deleted |-> Slice(col, Len(S_outputs))]

\* [df, generated_columns] from the target run's details.
apply_target_to_data(target_output, initial_data) ==
    LET prefixed == {c \in Columns(target_output) : StartsWith(c, S_outputs)}
        generated_columns == {Slice(c, Len(S_outputs)) : c \in prefixed}
        rename_dict == target_rename_dict(target_output, initial_data)
        sorted == sort_by_line_number(target_output)
        drop_columns == {c \in Columns(sorted) : StartsWith(c, S_inputs)}
        renamed == RenameColumns(DropColumns(sorted, drop_columns), rename_dict)
    IN  [df |-> concat_axis1(renamed, initial_data),
         generated_columns |-> generated_columns]

(* ------------------- evaluate: the default and auto-wiring ------------- *)

\* f'${{run.outputs.{col}}}'
run_output(col) == S_open \o S_run_outputs \o col \o S_close

\* A mutation of auto_wire_mapping: the implicit entry is written whether or
\* not the caller mapped the column.
auto_wire_mapping_always(mapping, order) ==
    LET RECURSIVE go(_, _)
        go(items, i) ==
            IF i > Len(order) THEN items
            ELSE LET at == {j \in DOMAIN items : items[j].k = order[i]}
                     e == [k |-> order[i], v |-> run_output(order[i])]
                 IN  IF at = {} THEN go(Append(items, e), i + 1)
                     ELSE go([items EXCEPT ![CHOOSE j \in at : TRUE] = e], i + 1)
    IN  [mapping EXCEPT !.items = go(mapping.items, 1)]

\* The loop over target_generated_columns for one mapping; order is the set's
\* iteration order.
auto_wire_mapping(mapping, order) ==
    LET mapped_to_values == {mapping.items[j].v : j \in DOMAIN mapping.items}
        RECURSIVE go(_, _)
        go(items, i) ==
            IF i > Len(order) THEN items
            ELSE IF /\ order[i] \notin {items[j].k : j \in DOMAIN items}
                    /\ run_output(order[i]) \notin mapped_to_values
                 THEN go(Append(items, [k |-> order[i], v |-> run_output(order[i])]), i + 1)
                 ELSE go(items, i + 1)
    IN  [mapping EXCEPT !.items = go(mapping.items, 1)]

\* evaluator_config with 'default' present.
with_default(evaluator_config) ==
    IF \E i \in DOMAIN evaluator_config : evaluator_config[i].name = S_default
    THEN evaluator_config
    ELSE Append(evaluator_config,
                [name |-> S_default, mapping |-> [kind |-> "dict", items |-> <<>>]])

auto_wire(evaluator_config, order) ==
    LET c == with_default(evaluator_config)
    IN  [i \in DOMAIN c |-> [c[i] EXCEPT !.mapping = auto_wire_mapping(c[i].mapping, order)]]

(* ------------------- evaluate: the evaluators' results ----------------- *)

\* "outputs." f"{evaluator_name}.{col.replace('outputs.', '')}"
evaluator_column(evaluator_name, col) ==
    S_outputs \o evaluator_name \o <<".">> \o Replace(col, S_outputs, <<>>)

\* The details of one evaluator's run with the input columns dropped and the
\* others renamed.
evaluator_result(details, evaluator_name) ==
    LET kept == DropColumns(details, {c \in Columns(details) : StartsWith(c, S_inputs_dot)})
    IN  RenameColumns(kept, [c \in Columns(kept) |-> evaluator_column(evaluator_name, c)])

(* ---------------------- _rename_columns_conditionally ------------------ *)

rename_columns_conditionally(df, target_generated) ==
    LET skipped == {col \in Columns(df) :
                       Contains(col, S_outputs)
                       /\ Slice(col, Len(S_outputs)) \in target_generated}
    IN  RenameColumns(df,
            [col \in Columns(df) \ skipped |->
                IF col \in target_generated /\ (S_outputs \o col) \notin Columns(df)
                THEN S_outputs \o col
                ELSE S_inputs_dot \o col])

(* ------------------------------ _calculate_mean ------------------------ *)

\* df.rename(columns={col: col.replace("outputs.", "") ...}, inplace=True): the
\* caller's table after the call, every "outputs." gone from its column names.
renamed_in_place(df) ==
    RenameColumns(df, [c \in Columns(df) |-> Replace(c, S_outputs, <<>>)])

\* df.mean(numeric_only=True).to_dict() after the rename: per numeric column
\* the mean as [sum, count] over its rows (NaN skipped); of two columns with
\* one name the later one is kept.
calculate_mean(df) ==
    LET renamed == renamed_in_place(df)
        numeric == {i \in DOMAIN renamed.cols :
                      \A p \in DOMAIN renamed.cols[i].vals :
                          renamed.cols[i].vals[p].kind \in {"num", "nan"}}
        last(nm) == CHOOSE i \in numeric :
                        /\ renamed.cols[i].name = nm
                        /\ \A j \in numeric : renamed.cols[j].name = nm => j <= i
        RECURSIVE sum(_, _)
        sum(vals, p) ==
            IF p > Len(vals) THEN 0
            ELSE (IF vals[p].kind = "num" THEN vals[p].n ELSE 0) + sum(vals, p + 1)
    IN  [nm \in {renamed.cols[i].name : i \in numeric} |->
            [sum |-> sum(renamed.cols[last(nm)].vals, 1),
             count |-> Cardinality({p \in DOMAIN renamed.cols[last(nm)].vals :
                                       renamed.cols[last(nm)].vals[p].kind = "num"})]]

(* ---------------------------- the invocations -------------------------- *)

Q == <<"q">>
X == <<"x">>
Y == <<"y">>
A == <<"a">>
B == <<"b">>
OutX == S_outputs \o X

Param(name, has_default) == [name |-> name, has_default |-> has_default]
Field(name, kind) == [name |-> name, kind |-> kind]
Entry(k, v) == [k |-> k, v |-> v]
Dict(items) == [kind |-> "dict", items |-> items]
Ref(root, field) == S_open \o root \o field \o S_close

\* data: None, or a file whose records have these keys.
DataArgs ==
    {[kind |-> "none", columns |-> <<>>]}
    \cup {[kind |-> "path", columns |-> c] :
            c \in {<<Q>>, <<Q, X>>, <<Q, OutX>>, <<Q, X, OutX>>, <<Q, A>>}}

\* target: None, or a function with these parameters and result fields.
TargetArgs ==
    {[kind |-> "none", params |-> <<>>, fields |-> <<>>],
     [kind |-> "fn", params |-> <<Param(Q, FALSE)>>, fields |-> <<Field(X, "str")>>],
     [kind |-> "fn", params |-> <<Param(Q, FALSE)>>,
      fields |-> <<Field(X, "str"), Field(Y, "str")>>],
     [kind |-> "fn", params |-> <<Param(A, FALSE)>>, fields |-> <<Field(X, "str")>>]}

\* The evaluators a caller may pass: name, parameters, result fields.
EvaluatorPool ==
    {[name |-> <<"f">>, params |-> <<Param(X, FALSE), Param(<<"k">>, TRUE)>>,
      fields |-> <<Field(<<"s">>, "num"), Field(<<"n">>, "str")>>],
     [name |-> <<"e", ".", "f">>, params |-> <<Param(Q, FALSE), Param(S_kwargs, FALSE)>>,
      fields |-> <<Field(<<"s">>, "num")>>],
     [name |-> <<"e">>, params |-> <<Param(A, FALSE)>>,
      fields |-> <<Field(<<"f", ".", "s">>, "num")>>]}

\* evaluators: None, not a dict, or a dict (its items in insertion order, the
\* names distinct) of at most MaxEvals evaluators.
EvaluatorArgs ==
    {[kind |-> "none", items |-> <<>>], [kind |-> "notdict", items |-> <<>>]}
    \cup {[kind |-> "dict", items |-> es] :
            es \in {es \in UNION {[1..n -> EvaluatorPool] : n \in 0..MaxEvals} :
                      \A i, j \in DOMAIN es : es[i].name = es[j].name => i = j}}

\* The column mappings a caller may write.
MappingPool ==
    {Dict(<<>>),
     Dict(<<Entry(A, Ref(S_target, X))>>),
     Dict(<<Entry(A, Ref(S_data, Q))>>),
     Dict(<<Entry(A, Ref(<<"f", "o", "o", ".">>, <<"b", "a", "r">>))>>),
     Dict(<<Entry(A, Ref(<<"f", "o", "o", "\n">>, <<"b", "a", "r">>))>>),
     Dict(<<Entry(A, Ref(S_target, X)), Entry(B, Ref(S_target, X))>>),
     Dict(<<Entry(X, Ref(S_data, Q))>>),
     Dict(<<Entry(Q, Ref(S_target, X))>>)}

\* evaluator_config: a 'default' entry and an entry for evaluator "e", each
\* present or not.
ConfigArgs ==
    {d \o e :
        d \in {<<>>} \cup {<<[name |-> S_default, mapping |-> m]>> : m \in MappingPool},
        e \in {<<>>} \cup {<<[name |-> <<"e">>, mapping |-> m]>> :
                  m \in {Dict(<<Entry(A, Ref(S_target, X))>>),
                         Dict(<<Entry(A, Ref(S_data, Q))>>),
                         [kind |-> "notdict"]}}}

(* -------------------------------- state -------------------------------- *)

VARIABLES
    target, data, evaluators, config_arg,  \* the arguments of evaluate
    pc,                     \* where the invocation stands
    err,                    \* the exception that ended it, NoErr if none
    input_data_df,          \* input_data_df
    evaluator_config,       \* evaluator_config, once processed
    target_generated_columns,
    runs,                   \* the runs started with pf_client.run, in order
    collected,              \* how many evaluators' results have been merged
    evaluators_result_df,
    result,                 \* the report returned
    mapped_df               \* what _apply_column_mapping returned, called on its own

vars == <<target, data, evaluators, config_arg, pc, err, input_data_df,
          evaluator_config, target_generated_columns, runs, collected,
          evaluators_result_df, result, mapped_df>>

args == <<target, data, evaluators, config_arg>>

NoResult == [rows |-> <<>>, metrics |-> <<>>]

Init ==
    /\ target \in TargetArgs
    /\ data \in DataArgs
    /\ evaluators \in EvaluatorArgs
    /\ config_arg \in ConfigArgs
    /\ pc = "start"
    /\ err = NoErr
    /\ input_data_df = NoneDF
    /\ evaluator_config = <<>>
    /\ target_generated_columns = {}
    /\ runs = <<>>
    /\ collected = 0
    /\ evaluators_result_df = NoneDF
    /\ result = NoResult
    /\ mapped_df = NoneDF

Fail(e, at) == pc' = "failed" /\ err' = [e EXCEPT !.at = at]

\* evaluate, lines 298-302: load, process the configuration, validate.
Validate ==
    /\ pc = "start"
    /\ LET e1 == validate_and_load_data(target, data, evaluators)
           df == initial_data_df(data)
           pr == process_evaluator_config(config_arg)
           e3 == validate_columns(df, evaluators, target, pr.config)
       IN  IF e1 # NoErr
           THEN Fail(e1, "validate") /\ UNCHANGED <<input_data_df, evaluator_config>>
           ELSE IF pr.err # NoErr
           THEN Fail(pr.err, "validate") /\ input_data_df' = df /\ UNCHANGED evaluator_config
           ELSE IF e3 # NoErr
           THEN Fail(e3, "validate") /\ input_data_df' = df /\ evaluator_config' = pr.config
           ELSE /\ pc' = IF target.kind # "none" THEN "run_target" ELSE "run_evaluators"
                /\ err' = NoErr
                /\ input_data_df' = df
                /\ evaluator_config' = pr.config
    /\ UNCHANGED <<args, mapped_df, target_generated_columns, runs, collected,
                   evaluators_result_df, result>>

\* _apply_target_to_data, line 126: the target's run is started.
StartTargetRun ==
    /\ pc = "run_target"
    /\ runs' = Append(runs, [kind |-> "target", name |-> <<>>])
    /\ pc' = "target_details"
    /\ UNCHANGED <<args, mapped_df, err, input_data_df, evaluator_config,
                   target_generated_columns, collected, evaluators_result_df, result>>

\* _apply_target_to_data from line 136 and evaluate, lines 318-338: the
\* target's rows come back in some order, are merged with the data, the
\* mappings are auto-wired and the evaluators validated.
TargetDetails ==
    /\ pc = "target_details"
    /\ \E perm \in Perms(NRows) :
         LET r == apply_target_to_data(get_details(target, S_target, perm), input_data_df)
         IN  \E order \in Orderings(r.generated_columns) :
               LET c == auto_wire(evaluator_config, order)
                   e == validate_columns(r.df, evaluators,
                            [kind |-> "none", params |-> <<>>, fields |-> <<>>], c)
               IN  /\ input_data_df' = r.df
                   /\ target_generated_columns' = r.generated_columns
                   /\ evaluator_config' = c
                   /\ IF e = NoErr
                      THEN pc' = "run_evaluators" /\ err' = NoErr
                      ELSE Fail(e, "target")
    /\ UNCHANGED <<args, mapped_df, runs, collected, evaluators_result_df, result>>

\* evaluate, lines 342-350: the next evaluator's run is started.
StartEvaluatorRun ==
    /\ pc = "run_evaluators"
    /\ Len(runs) - (IF target.kind # "none" THEN 1 ELSE 0) < Len(evaluators.items)
    /\ LET k == Len(runs) - (IF target.kind # "none" THEN 1 ELSE 0) + 1
       IN  runs' = Append(runs, [kind |-> "evaluator", name |-> evaluators.items[k].name])
    /\ UNCHANGED <<args, mapped_df, pc, err, input_data_df, evaluator_config,
                   target_generated_columns, collected, evaluators_result_df, result>>

AllStarted ==
    Len(runs) - (IF target.kind # "none" THEN 1 ELSE 0) = Len(evaluators.items)

\* evaluate, lines 353-375: the next evaluator's rows come back in some order
\* and are merged with the earlier evaluators'.
CollectEvaluator ==
    /\ pc = "run_evaluators"
    /\ AllStarted
    /\ collected < Len(evaluators.items)
    /\ \E perm \in Perms(NRows) :
         LET ev == evaluators.items[collected + 1]
             res == evaluator_result(get_details(ev, ev.name, perm), ev.name)
             merged == IF evaluators_result_df.none THEN res
                       ELSE concat_axis1(evaluators_result_df, res)
         IN  IF ~evaluators_result_df.none /\ HasDuplicateColumns(merged)
             THEN Fail(Err("ValueError", "Indexes have overlapping values"), "collect")
                  /\ UNCHANGED <<collected, evaluators_result_df>>
             ELSE /\ evaluators_result_df' = merged
                  /\ collected' = collected + 1
                  /\ UNCHANGED <<pc, err>>
    /\ UNCHANGED <<args, mapped_df, input_data_df, evaluator_config, target_generated_columns,
                   runs, result>>

\* evaluate, lines 380-393: the data's columns are renamed, merged with the
\* evaluators' and the report is returned.
BuildReport ==
    /\ pc = "run_evaluators"
    /\ AllStarted
    /\ collected = Len(evaluators.items)
    /\ LET df == rename_columns_conditionally(input_data_df, target_generated_columns)
           result_df == IF evaluators_result_df.none THEN df
                        ELSE concat_axis1(df, evaluators_result_df)
       IN  /\ input_data_df' = df
           /\ IF HasDuplicateColumns(result_df)
              THEN Fail(Err("ValueError", "Indexes have overlapping values"), "report")
                   /\ UNCHANGED <<result, evaluators_result_df>>
              ELSE IF evaluators_result_df.none
              THEN Fail(Err("AttributeError", "'NoneType' object has no attribute 'rename'"),
                        "report")
                   /\ UNCHANGED <<result, evaluators_result_df>>
              ELSE /\ pc' = "done"
                   /\ err' = NoErr
                   /\ result' = [rows |-> to_dict_records(result_df),
                                 metrics |-> calculate_mean(evaluators_result_df)]
                   /\ evaluators_result_df' = renamed_in_place(evaluators_result_df)
    /\ UNCHANGED <<args, mapped_df, evaluator_config, target_generated_columns, runs, collected>>

Next ==
    \/ Validate
    \/ StartTargetRun
    \/ TargetDetails
    \/ StartEvaluatorRun
    \/ CollectEvaluator
    \/ BuildReport

Spec == Init /\ [][Next]_vars

(* ------------------------------- claims -------------------------------- *)

\* The target's run has been started.
TargetRunStarted == \E k \in DOMAIN runs : runs[k].kind = "target"

\* The evaluators whose run has been started.
EvaluatorRunsStarted == {runs[k].name : k \in {j \in DOMAIN runs : runs[j].kind = "evaluator"}}

\* The target-application stage has returned and input_data_df still holds
\* the table it returned.
TargetStageReturned ==
    /\ target.kind # "none"
    /\ \/ pc = "run_evaluators"
       \/ pc = "failed" /\ err.at \in {"target", "collect"}

\* The values of the data set's column c, row by row.
IsDataColumn(col, c) ==
    \A p \in DOMAIN col.vals : col.vals[p].by = S_data /\ col.vals[p].f = c /\ col.vals[p].r = p - 1

\* The values the target computed for field f, row by row.
IsTargetColumn(col, f) ==
    \A p \in DOMAIN col.vals :
        col.vals[p].by = S_target /\ col.vals[p].f = f /\ col.vals[p].r = p - 1

\* The fields the target produces.
TargetFields == {target.fields[i].name : i \in DOMAIN target.fields}

\* C1: a report that is returned has as many row records as the input file
\* has lines, whatever the number of evaluators and with or without a target.
C1_RowCount == pc = "done" => Len(result.rows) = NRows

C1_Witness ==
    /\ pc = "done"
    /\ target.kind = "fn"
    /\ Len(evaluators.items) = 2
    /\ Len(result.rows) = NRows

\* C2: in the report, every value of the row record at position i was
\* computed for (or loaded from) line i of the input file, whatever order the
\* runs returned their rows in.
C2_RowIdentity ==
    pc = "done" =>
        \A p \in DOMAIN result.rows : \A i \in DOMAIN result.rows[p] :
            result.rows[p][i].value.r = p - 1

\* C3: when the data set has a column x and the target produces a field x,
\* the table the target-application stage returns has a column x holding the
\* data set's values and a column outputs.x holding the target's values.
C3_CollisionPolicy ==
    TargetStageReturned =>
        \A x \in Range(data.columns) \cap TargetFields :
            /\ \E i \in DOMAIN input_data_df.cols :
                  input_data_df.cols[i].name = x /\ IsDataColumn(input_data_df.cols[i], x)
            /\ \E i \in DOMAIN input_data_df.cols :
                  /\ input_data_df.cols[i].name = S_outputs \o x
                  /\ IsTargetColumn(input_data_df.cols[i], x)

C3_Witness ==
    /\ pc = "run_evaluators"
    /\ TargetRunStarted
    /\ X \in Range(data.columns) \cap TargetFields
    /\ \E i \in DOMAIN input_data_df.cols :
          input_data_df.cols[i].name = OutX /\ IsTargetColumn(input_data_df.cols[i], X)

\* The columns outputs.<evaluator_name>.<field> of the k-th evaluator.
NamespacedColumns(k) ==
    {S_outputs \o evaluators.items[k].name \o <<".">> \o evaluators.items[k].fields[i].name :
        i \in DOMAIN evaluators.items[k].fields}

\* The evaluators whose namespaced columns share a name with an earlier one's.
Clashing ==
    {k \in DOMAIN evaluators.items :
        \E j \in 1..(k - 1) : NamespacedColumns(j) \cap NamespacedColumns(k) # {}}

\* C4: when two evaluators' namespaced columns share a name, the merge of the
\* later one's results never succeeds (so that no merged table holds the name
\* once or twice) and no report is returned.
C4_DuplicateColumns ==
    \A k \in Clashing : collected < k /\ pc # "done"

C4_Witness ==
    /\ Clashing # {}
    /\ pc = "failed"
    /\ err.at = "collect"
    /\ err.msg = "Indexes have overlapping values"
    /\ collected + 1 \in Clashing

\* A ${...} reference in v whose root is neither target. nor data.
ForeignReference(v) ==
    \E i \in 1..Len(v), j \in 1..Len(v) :
        /\ j >= i + 3
        /\ v[i] = "$" /\ v[i + 1] = "{" /\ v[j] = "}"
        /\ \A k \in (i + 2)..(j - 1) : v[k] \notin {"{", "}"}
        /\ ~StartsWith(SubSeq(v, i + 2, j - 1), S_target)
        /\ ~StartsWith(SubSeq(v, i + 2, j - 1), S_data)

ConfigHasForeignReference ==
    \E i \in DOMAIN config_arg :
        /\ config_arg[i].mapping.kind = "dict"
        /\ \E j \in DOMAIN config_arg[i].mapping.items :
              ForeignReference(config_arg[i].mapping.items[j].v)

\* C5: with a ${...} reference of a root other than target. or data. in a
\* mapping value of evaluator_config, no run is ever started.
C5_ForeignReferenceRejected == ConfigHasForeignReference => runs = <<>>

\* The parameters of a callable that have no default, self, args and kwargs
\* aside.
Required(callable) ==
    {callable.params[i].name :
        i \in {j \in DOMAIN callable.params : ~callable.params[j].has_default}}
    \ {S_self, S_args, S_kwargs}

\* The table the k-th evaluator is validated against: input_data_df after the
\* evaluator's resolved mapping is applied.
ValidatedColumns(k) ==
    Columns(apply_column_mapping(input_data_df,
                config_get(evaluator_config, evaluators.items[k].name)))

\* C6: a run is started only of a callable whose required parameters are all
\* columns of the table it is validated against; a missing-required-inputs
\* error names exactly the missing parameters and no run of that callable has
\* been started.
C6_FailFast ==
    /\ TargetRunStarted => Required(target) \subseteq Range(data.columns)
    /\ pc = "run_evaluators" =>
          \A k \in DOMAIN evaluators.items :
              Required(evaluators.items[k]) \subseteq ValidatedColumns(k)
    /\ (pc = "failed" /\ err.msg = "Missing required inputs for target") =>
          /\ runs = <<>>
          /\ err.missing # <<>>
          /\ Range(err.missing) = Required(target) \ Range(data.columns)
    /\ (pc = "failed" /\ err.msg = "Missing required inputs for evaluator") =>
          /\ EvaluatorRunsStarted = {}
          /\ err.missing # <<>>
          /\ \E k \in DOMAIN evaluators.items :
                /\ evaluators.items[k].name = err.label
                /\ Range(err.missing) = Required(evaluators.items[k]) \ ValidatedColumns(k)

C6_Witness ==
    /\ pc = "failed"
    /\ err.msg = "Missing required inputs for evaluator"
    /\ TargetRunStarted
    /\ err.label = <<"f">>
    /\ err.missing = <<X>>

\* C7: without evaluators, or with evaluators that are not a dict, no run is
\* started, a target's included.
C7_NoEvaluatorsRejected == evaluators.kind \in {"none", "notdict"} => runs = <<>>

\* The mappings of evaluator_config that are dicts, in order: the ones
\* _process_evaluator_config keeps.
DictEntries ==
    SelectIdx(config_arg, {i \in DOMAIN config_arg : config_arg[i].mapping.kind = "dict"}, 1)

\* evaluator_config holds the processed configuration.
ConfigProcessed ==
    \/ pc \in {"run_target", "target_details", "run_evaluators", "done"}
    \/ pc = "failed" /\ err.at \in {"target", "collect", "report"}

\* C8: ${target.F} is rewritten to ${run.outputs.F} and ${data.F} is kept;
\* applied to the table the target stage returned, the mapping gives a column
\* dest holding the target's values for F.
C8_TargetReference ==
    /\ ConfigProcessed =>
          \A i \in DOMAIN DictEntries : \A j \in DOMAIN DictEntries[i].mapping.items :
              LET v == DictEntries[i].mapping.items[j].v
                  w == evaluator_config[i].mapping.items[j]
              IN  /\ w.k = DictEntries[i].mapping.items[j].k
                  /\ \A F \in {X, Y, Q} :
                        /\ v = Ref(S_target, F) => w.v = Ref(S_run_outputs, F)
                        /\ v = Ref(S_data, F) => w.v = v
    /\ (TargetRunStarted /\ pc = "run_evaluators") =>
          \A i \in DOMAIN DictEntries : \A j \in DOMAIN DictEntries[i].mapping.items :
              \A F \in target_generated_columns :
                  DictEntries[i].mapping.items[j].v = Ref(S_target, F) =>
                      \E c \in Range(apply_column_mapping(input_data_df,
                                         evaluator_config[i].mapping).cols) :
                          /\ c.name = DictEntries[i].mapping.items[j].k
                          /\ IsTargetColumn(c, F)

\* The processed configuration before auto-wiring.
Processed == process_evaluator_config(config_arg).config

\* C9: after a target run every mapping of the configuration, 'default'
\* included, keeps the entries it had, and gains c -> ${run.outputs.c} for a
\* generated column c exactly when c was no key and ${run.outputs.c} no value
\* of it.
C9_AutoWire ==
    TargetStageReturned =>
        /\ \E i \in DOMAIN evaluator_config : evaluator_config[i].name = S_default
        /\ \A i \in DOMAIN evaluator_config :
              LET pre == IF i <= Len(Processed) THEN Processed[i].mapping.items ELSE <<>>
                  post == evaluator_config[i].mapping.items
                  added == {post[j] : j \in (Len(pre) + 1)..Len(post)}
              IN  /\ i <= Len(Processed) => evaluator_config[i].name = Processed[i].name
                  /\ i > Len(Processed) =>
                        /\ evaluator_config[i].name = S_default
                        /\ i = Len(Processed) + 1
                        /\ \A k \in DOMAIN Processed : Processed[k].name # S_default
                  /\ Len(post) >= Len(pre)
                  /\ SubSeq(post, 1, Len(pre)) = pre
                  /\ Len(post) = Len(pre) + Cardinality(added)
                  /\ added =
                        {Entry(c, S_open \o S_run_outputs \o c \o S_close) :
                            c \in {g \in target_generated_columns :
                                     /\ g \notin {pre[j].k : j \in DOMAIN pre}
                                     /\ (S_open \o S_run_outputs \o g \o S_close)
                                            \notin {pre[j].v : j \in DOMAIN pre}}}

C9_Witness ==
    /\ pc = "run_evaluators"
    /\ target_generated_columns = {X, Y}
    /\ \E i \in DOMAIN evaluator_config :
          evaluator_config[i].mapping.items =
              <<Entry(X, Ref(S_data, Q)), Entry(Y, Ref(S_run_outputs, Y))>>

\* The columns the target generated, when it ran.
Generated == IF target.kind # "none" THEN TargetFields ELSE {}

\* C10: every key of a row record starts with inputs. or outputs.; a data set
\* column the target did not generate is inputs.<column>, a generated column
\* is outputs.<column> once, with the target's value, and never
\* outputs.outputs.<column>; an evaluator's column is
\* outputs.<evaluator_name>.<field>.
C10_Namespaces ==
    pc = "done" =>
        \A p \in DOMAIN result.rows :
            LET row == result.rows[p]
                keys == {row[i].key : i \in DOMAIN row}
            IN  /\ \A k \in keys : StartsWith(k, S_inputs_dot) \/ StartsWith(k, S_outputs)
                /\ \A c \in Range(data.columns) \ Generated :
                      \E i \in DOMAIN row :
                          /\ row[i].key = S_inputs_dot \o c
                          /\ row[i].value.by = S_data /\ row[i].value.f = c
                /\ \A c \in Generated :
                      /\ Cardinality({i \in DOMAIN row : row[i].key = S_outputs \o c}) = 1
                      /\ \A i \in DOMAIN row :
                            row[i].key = S_outputs \o c =>
                                row[i].value.by = S_target /\ row[i].value.f = c
                      /\ (S_outputs \o S_outputs \o c) \notin keys
                /\ \A k \in DOMAIN evaluators.items : NamespacedColumns(k) \subseteq keys

(* ------- _apply_column_mapping and _calculate_mean, called on their own -- *)

\* Largest number of entries of a column mapping.
MaxEntries == 2
\* Largest number of columns of a merged evaluator table.
MaxCols == 2

\* The tables handed to _apply_column_mapping: one column per name of a
\* subset of ResolverColumns, in this order, holding the data set's values.
ResolverColumns == <<Q, X, A, B, OutX>>

ResolverTables ==
    {initial_data_df([kind |-> "path", columns |-> SelectIdx(ResolverColumns, keep, 1)]) :
        keep \in SUBSET DOMAIN ResolverColumns}

\* The destinations and the expressions of the entries of a mapping.
ResolverDests == {A, B, Q}

Foo == <<"f", "o", "o", ".">>
Bar == <<"b", "a", "r">>

ResolverExprs == {Ref(S_data, Q), Ref(S_data, A), Ref(S_run_outputs, X), Ref(Foo, Bar)}

\* mapping_config: None, or a dict of at most MaxEntries entries (the keys
\* distinct, in insertion order).
ResolverMappings ==
    {[kind |-> "none"]}
    \cup {Dict(items) :
            items \in {es \in UNION {[1..n -> {Entry(k, v) : k \in ResolverDests,
                                                              v \in ResolverExprs}] :
                                       n \in 0..MaxEntries} :
                         \A i, j \in DOMAIN es : es[i].k = es[j].k => i = j}}

\* The merged evaluator tables handed to _calculate_mean: at most MaxCols
\* columns outputs.<evaluator_name>.<field> with distinct names; a column holds
\* numbers, text, or a number in its first row and text below.
Outputs == <<"o", "u", "t", "p", "u", "t", "s">>

MeanNames ==
    {evaluator_column(<<"e">>, S_outputs \o <<"s">>),
     evaluator_column(<<"f">>, S_outputs \o <<"s">>),
     evaluator_column(Outputs, S_outputs \o <<"s">>),
     evaluator_column(Outputs, S_outputs \o <<"e", ".", "s">>)}

MeanKinds == {"num", "str", "mixed"}

MeanColumn(name, kind, i) ==
    [name |-> name,
     vals |-> [p \in 1..NRows |->
                  IF kind = "num" \/ (kind = "mixed" /\ p = 1)
                  THEN Cell(name, <<>>, p - 1, "num", 2 * p - 1 + i)
                  ELSE Cell(name, <<>>, p - 1, "str", 0)]]

MeanTables ==
    UNION {{Frame(RangeIndex(NRows), [i \in 1..n |-> MeanColumn(names[i], kinds[i], i)]) :
               names \in {ns \in [1..n -> MeanNames] :
                            \A i, j \in 1..n : ns[i] = ns[j] => i = j},
               kinds \in [1..n -> MeanKinds]} :
           n \in 0..MaxCols}

\* Either function is about to be called on an input of its pool.
InitFn ==
    /\ target = [kind |-> "none", params |-> <<>>, fields |-> <<>>]
    /\ data = [kind |-> "none", columns |-> <<>>]
    /\ evaluators = [kind |-> "none", items |-> <<>>]
    /\ config_arg = <<>>
    /\ err = NoErr
    /\ target_generated_columns = {}
    /\ runs = <<>>
    /\ collected = 0
    /\ result = NoResult
    /\ mapped_df = NoneDF
    /\ \/ /\ pc = "resolve"
          /\ input_data_df \in ResolverTables
          /\ evaluator_config \in
                {<<>>} \cup {<<[name |-> S_default, mapping |-> m]>> :
                                m \in ResolverMappings \ {[kind |-> "none"]}}
          /\ evaluators_result_df = NoneDF
       \/ /\ pc = "aggregate"
          /\ input_data_df = NoneDF
          /\ evaluator_config = <<>>
          /\ evaluators_result_df \in MeanTables

\* The mapping handed to _apply_column_mapping: the default one, None if absent.
MappingConfig == config_get(evaluator_config, S_default)

\* _apply_column_mapping(source_df, mapping_config), lines 176-209: it has no
\* raise statement; it returns result_df.
ApplyColumnMapping ==
    /\ pc = "resolve"
    /\ mapped_df' = apply_column_mapping(input_data_df, MappingConfig)
    /\ pc' = "resolved"
    /\ UNCHANGED <<args, err, input_data_df, evaluator_config, target_generated_columns,
                   runs, collected, evaluators_result_df, result>>

\* _calculate_mean(evaluators_result_df), lines 16-19: the metrics are
\* returned and the argument's columns are renamed in place.
CalculateMean ==
    /\ pc = "aggregate"
    /\ result' = [rows |-> <<>>, metrics |-> calculate_mean(evaluators_result_df)]
    /\ evaluators_result_df' = renamed_in_place(evaluators_result_df)
    /\ pc' = "aggregated"
    /\ UNCHANGED <<args, err, input_data_df, evaluator_config, target_generated_columns,
                   runs, collected, mapped_df>>

NextFn ==
    \/ ApplyColumnMapping
    \/ CalculateMean

SpecFn == InitFn /\ [][NextFn]_vars

(* ------------------ claims about the two functions --------------------- *)

\* A column name with its leading outputs. prefix removed.
WithoutLeadingOutputs(name) ==
    IF StartsWith(name, S_outputs) THEN Slice(name, Len(S_outputs)) ELSE name

\* The columns (positions) of a table whose values are all numbers.
NumericColumns(t) ==
    {i \in DOMAIN t.cols : \A p \in DOMAIN t.cols[i].vals : t.cols[i].vals[p].kind = "num"}

\* The sum of the numbers vals[p..].
RECURSIVE SumOf(_, _)
SumOf(vals, p) == IF p > Len(vals) THEN 0 ELSE vals[p].n + SumOf(vals, p + 1)

\* C11: the metrics of a merged evaluator table have exactly one entry per
\* column whose values are all numeric, keyed by the column's name with its
\* leading outputs. removed and valued with the mean of the column over all
\* rows (its sum and the number of rows); a column with a non-numeric value
\* has no entry, and a table without columns yields the empty mapping.  The
\* table is the one handed to the call, the metrics the ones it returns.
C11_MetricAggregation ==
    [][(pc = "aggregate" /\ pc' = "aggregated") =>
        LET t == evaluators_result_df
            metrics == result'.metrics
        IN  /\ DOMAIN metrics = {WithoutLeadingOutputs(t.cols[i].name) : i \in NumericColumns(t)}
            /\ Cardinality(DOMAIN metrics) = Cardinality(NumericColumns(t))
            /\ \A i \in NumericColumns(t) :
                  LET key == WithoutLeadingOutputs(t.cols[i].name)
                  IN  /\ metrics[key].sum = SumOf(t.cols[i].vals, 1)
                      /\ metrics[key].count = Len(t.index)]_vars

\* The mapping handed to the resolver is the single entry dest -> ${data.src}.
SingleDataEntry(dest, src) ==
    /\ MappingConfig.kind = "dict"
    /\ MappingConfig.items = <<Entry(dest, Ref(S_data, src))>>

\* The mapping handed to the resolver is None or {}.
NoMapping == MappingConfig.kind = "none" \/ MappingConfig.items = <<>>

\* Table t has exactly one column named c, and it is column col.
HasColumn(t, c, col) ==
    /\ Cardinality({i \in DOMAIN t.cols : t.cols[i].name = c}) = 1
    /\ \A i \in DOMAIN t.cols : t.cols[i].name = c => t.cols[i].vals = col.vals

\* C12: resolving the single entry dest -> ${data.src} on a table that has
\* column src and no column dest returns a table with the same rows in which
\* dest holds the values src had, src is gone and every other column is as it
\* was; resolving an empty or absent mapping returns the table unchanged.
C12_MappingRoundTrip ==
    pc = "resolved" =>
        /\ \A dest \in ResolverDests : \A k \in DOMAIN input_data_df.cols :
              LET src == input_data_df.cols[k].name
              IN  (SingleDataEntry(dest, src) /\ dest \notin Columns(input_data_df)) =>
                      /\ mapped_df.none = FALSE
                      /\ mapped_df.index = input_data_df.index
                      /\ HasColumn(mapped_df, dest, input_data_df.cols[k])
                      /\ IsDataColumn(CHOOSE col \in Range(mapped_df.cols) : col.name = dest, src)
                      /\ src \notin Columns(mapped_df)
                      /\ Columns(mapped_df) = (Columns(input_data_df) \ {src}) \cup {dest}
                      /\ \A j \in DOMAIN input_data_df.cols \ {k} :
                            HasColumn(mapped_df, input_data_df.cols[j].name,
                                      input_data_df.cols[j])
        /\ NoMapping => mapped_df = input_data_df

\* The entry a -> ${data.q} was resolved on the table with the columns q, x
\* and outputs.x.
C12_Witness ==
    /\ pc = "resolved"
    /\ SingleDataEntry(A, Q)
    /\ ColNames(input_data_df) = <<Q, X, OutX>>
    /\ ColNames(mapped_df) = <<A, X, OutX>>

\* C13: the target-application stage never returns a table in which a column
\* name appears twice: when the target's result columns (renamed, inputs.*
\* removed) and the data set's columns share a name the merge fails instead.
C13_TargetMergeCollision ==
    (TargetRunStarted /\ pc = "run_evaluators") => ~HasDuplicateColumns(input_data_df)

\* v has the form ${reference} and the reference starts with neither data.
\* nor run.outputs.
InvalidMappingReference(v) ==
    /\ Len(v) >= 4
    /\ v[1] = "$" /\ v[2] = "{" /\ v[Len(v)] = "}"
    /\ \A k \in 3..(Len(v) - 1) : v[k] \notin {"{", "}"}
    /\ ~StartsWith(SubSeq(v, 3, Len(v) - 1), S_data)
    /\ ~StartsWith(SubSeq(v, 3, Len(v) - 1), S_run_outputs)

\* C14: resolving a mapping with an entry whose expression is ${reference},
\* the reference starting with neither data. nor run.outputs., fails with an
\* error and returns no table.
C14_InvalidReferenceRejected ==
    (/\ pc = "resolved"
     /\ MappingConfig.kind = "dict"
     /\ \E i \in DOMAIN MappingConfig.items : InvalidMappingReference(MappingConfig.items[i].v))
        => (mapped_df.none /\ err # NoErr)

\* Expression v resolves to column src of table t: ${data.src}, or
\* ${run.outputs.F} with src = outputs.F if the table has that column and
\* src = F otherwise.
ResolvesTo(v, src, t) ==
    \/ v = Ref(S_data, src)
    \/ StartsWith(src, S_outputs) /\ v = Ref(S_run_outputs, Slice(src, Len(S_outputs)))
    \/ v = Ref(S_run_outputs, src) /\ (S_outputs \o src) \notin Columns(t)

\* C15: for every entry dest -> expr of the mapping whose resolved source
\* column exists in the table, the resolved table has exactly one column named
\* dest and it holds the values of that source column.
C15_EveryEntryResolved ==
    (pc = "resolved" /\ MappingConfig.kind = "dict") =>
        \A i \in DOMAIN MappingConfig.items : \A k \in DOMAIN input_data_df.cols :
            ResolvesTo(MappingConfig.items[i].v, input_data_df.cols[k].name, input_data_df) =>
                HasColumn(mapped_df, MappingConfig.items[i].k, input_data_df.cols[k])

====
